---- MODULE Spec2Model ----
(***************************************************************************)
(* Model of key_logger.py: the consent prompt, the key-name resolution     *)
(* (readable_key_name), and the read loop of main with its session log,    *)
(* reconstructed text and display row counter.                             *)
(*                                                                         *)
(* Text is modelled as sequences of Unicode code points (integers), so     *)
(* that len(), startswith(), isprintable(), lower(), strip(), replace()    *)
(* and chr() are computed on the characters themselves:                    *)
(*   "ESC" = <<69,83,67>>, newline = 10, space = 32, backslash = 92.       *)
(***************************************************************************)
EXTENDS Integers, Sequences, FiniteSets, TLC

(***************************************************************************)
(* Bounds of the model.                                                    *)
(***************************************************************************)
MaxKeys == 5          \* keys read in one session
MaxHeight == 7        \* terminal heights 1..MaxHeight
MaxConsentLen == 4    \* length of the line typed at the consent prompt

(***************************************************************************)
(* Characters and strings.                                                 *)
(***************************************************************************)
NL == 10
SP == 32
BACKSLASH == 92

\* str.isprintable() of a one-character string, for code points 0..255
\* (ASCII 32..126; Latin-1 161..255 except the soft hyphen 173).
isprintable(cp) ==
    \/ cp \in 32..126
    \/ (cp \in 161..255 /\ cp # 173)

\* chr(key) succeeds for 0 <= key < 0x110000 and raises ValueError otherwise.
chr_ok(key) == key >= 0 /\ key < 1114112

\* str.startswith(prefix)
startswith(s, prefix) ==
    /\ Len(s) >= Len(prefix)
    /\ SubSeq(s, 1, Len(prefix)) = prefix

RECURSIVE Digits(_)
Digits(n) == IF n < 10 THEN <<48 + n>> ELSE Digits(n \div 10) \o <<48 + (n % 10)>>

\* str(key) as formatted by the f-string f"KEY_{key}"
IntStr(n) == IF n < 0 THEN <<45>> \o Digits(0 - n) ELSE Digits(n)

\* str.lower() on ASCII text
lower(s) == [i \in 1..Len(s) |-> IF s[i] \in 65..90 THEN s[i] + 32 ELSE s[i]]

\* code points str.strip() removes (whitespace below 256)
Whitespace == (9..13) \cup (28..32) \cup {133, 160}

RECURSIVE lstrip(_)
lstrip(s) == IF s # <<>> /\ Head(s) \in Whitespace THEN lstrip(Tail(s)) ELSE s

RECURSIVE rstrip(_)
rstrip(s) ==
    IF s # <<>> /\ s[Len(s)] \in Whitespace THEN rstrip(SubSeq(s, 1, Len(s) - 1)) ELSE s

\* str.strip()
strip(s) == rstrip(lstrip(s))

\* str.replace(old, new) for a non-empty old: leftmost, non-overlapping
RECURSIVE replace(_, _, _)
replace(s, old, new) ==
    IF Len(s) < Len(old) THEN s
    ELSE IF SubSeq(s, 1, Len(old)) = old
         THEN new \o replace(SubSeq(s, Len(old) + 1, Len(s)), old, new)
         ELSE <<Head(s)>> \o replace(Tail(s), old, new)

(***************************************************************************)
(* Key names.                                                              *)
(***************************************************************************)
ESC == <<69, 83, 67>>
ENTER == <<69, 78, 84, 69, 82>>
SPACE == <<83, 80, 65, 67, 69>>
BACKSPACE == <<66, 65, 67, 75, 83, 80, 65, 67, 69>>
LEFT == <<76, 69, 70, 84>>
RIGHT == <<82, 73, 71, 72, 84>>
UP == <<85, 80>>
DOWN == <<68, 79, 87, 78>>
DELETE == <<68, 69, 76, 69, 84, 69>>
HOME == <<72, 79, 77, 69>>
END == <<69, 78, 68>>
PGUP == <<80, 71, 85, 80>>
PGDN == <<80, 71, 68, 78>>
KEY_ == <<75, 69, 89, 95>>

\* platform constants of the curses module
KEY_BACKSPACE == 263
KEY_LEFT == 260
KEY_RIGHT == 261
KEY_UP == 259
KEY_DOWN == 258
KEY_DC == 330
KEY_HOME == 262
KEY_END == 360
KEY_PPAGE == 339
KEY_NPAGE == 338

\* the static table; every hasattr() test of the source holds on a curses
\* build, so no entry is keyed by -1
SPECIAL_KEYS ==
    (27 :> ESC) @@ (10 :> ENTER) @@ (13 :> ENTER) @@ (32 :> SPACE) @@
    (KEY_BACKSPACE :> BACKSPACE) @@ (127 :> BACKSPACE) @@
    (KEY_LEFT :> LEFT) @@ (KEY_RIGHT :> RIGHT) @@ (KEY_UP :> UP) @@
    (KEY_DOWN :> DOWN) @@ (KEY_DC :> DELETE) @@ (KEY_HOME :> HOME) @@
    (KEY_END :> END) @@ (KEY_PPAGE :> PGUP) @@ (KEY_NPAGE :> PGDN)

(***************************************************************************)
(* The terminal driver: curses.keyname(key).decode('utf-8').               *)
(* An outcome is [ok |-> TRUE, name |-> text] or [ok |-> FALSE] (an        *)
(* exception: ValueError for a negative code, UnicodeDecodeError for a     *)
(* name that is a raw byte >= 128).  For 0..255 the name depends on        *)
(* whether the terminal is in meta mode, which the program does not set.   *)
(***************************************************************************)
Raised == [ok |-> FALSE, name |-> <<>>]
Named(n) == [ok |-> TRUE, name |-> n]

\* names of the codes >= 256 the driver knows, among the codes of the model
\* (257 is KEY_BREAK, 410 is KEY_RESIZE)
DriverKeyNames ==
    (257 :> KEY_ \o <<66, 82, 69, 65, 75>>) @@
    (KEY_DOWN :> KEY_ \o DOWN) @@ (KEY_UP :> KEY_ \o UP) @@
    (KEY_LEFT :> KEY_ \o LEFT) @@ (KEY_RIGHT :> KEY_ \o RIGHT) @@
    (KEY_HOME :> KEY_ \o HOME) @@ (KEY_BACKSPACE :> KEY_ \o BACKSPACE) @@
    (KEY_DC :> KEY_ \o <<68, 67>>) @@ (KEY_NPAGE :> KEY_ \o <<78, 80, 65, 71, 69>>) @@
    (KEY_PPAGE :> KEY_ \o <<80, 80, 65, 71, 69>>) @@ (KEY_END :> KEY_ \o END) @@
    (410 :> KEY_ \o <<82, 69, 83, 73, 90, 69>>)

\* name of a code 0..127: "^X" for a control code, "^?" for DEL, else the char
AsciiName(c) ==
    IF c < 32 THEN <<94, c + 64>>
    ELSE IF c = 127 THEN <<94, 63>>
    ELSE <<c>>

keyname(key) ==
    IF key < 0 THEN {Raised}
    ELSE IF key < 128 THEN {Named(AsciiName(key))}
    ELSE IF key < 256 THEN {Named(<<77, 45>> \o AsciiName(key - 128)), Raised}
    ELSE IF key \in DOMAIN DriverKeyNames THEN {Named(DriverKeyNames[key])}
    ELSE {Named(<<>>)}

\* the key codes the model resolves
KeyCodes == (-2..255) \cup DOMAIN DriverKeyNames \cup {256, 511, 600, 1000}

(***************************************************************************)
(* readable_key_name(key), given the outcome drv of the driver lookup.     *)
(***************************************************************************)
\* (the table's values are names, so the test SPECIAL_KEYS[key] != -1 of the
\* source is true of every entry)
readable_key_name(key, drv) ==
    IF key \in DOMAIN SPECIAL_KEYS THEN SPECIAL_KEYS[key]
    ELSE IF drv.ok
         THEN IF startswith(drv.name, KEY_) THEN drv.name
              ELSE IF Len(drv.name) = 1 THEN drv.name
              ELSE drv.name
    ELSE IF chr_ok(key) /\ isprintable(key) THEN <<key>>
    ELSE KEY_ \o IntStr(key)

(***************************************************************************)
(* State.                                                                  *)
(*   pc            position of the program: "boot" (module level, before   *)
(*                 makedirs), "prompt" (blocked in input()), "main"        *)
(*                 (curses.wrapper(main) called), "read" (blocked in       *)
(*                 getch), "ending" (loop left by break), "done",          *)
(*                 "declined", "interrupted", "crashed"; "resolve" in the  *)
(*                 specification of readable_key_name alone                *)
(*   fsLogs        what ./logs is on the file system: "absent", "dir",     *)
(*                 "file"; fsLogs0 is what it was before the program ran   *)
(*   typed         the line read by input() at the consent prompt          *)
(*   exitCode      the process's exit code, -1 while it runs               *)
(*   logf          the log file object: "none", "open", "closed" (by       *)
(*                 logf.close()), "finalized" (dropped without close();    *)
(*                 the interpreter flushes and closes it on collection)    *)
(*   buf, disk     lines written to logf and not yet flushed / lines in    *)
(*                 the session file                                        *)
(*   reconstructed the list reconstructed of main                          *)
(*   vertical_y    the row counter of main                                 *)
(*   height        the height main last read with getmaxyx()               *)
(*   keys          history: the key codes getch returned, each with the    *)
(*                 driver's outcome for it                                 *)
(*   ops           history: the file and screen operations of the last     *)
(*                 step, in program order; "x!" is x raising curses.error  *)
(*   lastRow       history: the row of the last key-label addnstr          *)
(*   kn            the call of readable_key_name under study               *)
(***************************************************************************)
VARIABLES pc, fsLogs, fsLogs0, typed, exitCode, logf, buf, disk,
          reconstructed, vertical_y, height, keys, ops, lastRow, kn

vars == <<pc, fsLogs, fsLogs0, typed, exitCode, logf, buf, disk,
          reconstructed, vertical_y, height, keys, ops, lastRow, kn>>

fileVars == <<logf, buf, disk>>
loopVars == <<reconstructed, vertical_y, height, keys, lastRow>>
bootVars == <<fsLogs, fsLogs0, typed>>

\* log lines; the date and time of a line are not modelled
StartMarker == [kind |-> "started", text |-> <<>>]
EndMarker == [kind |-> "ended", text |-> <<>>]
KeyLine(key_name) == [kind |-> "key", text |-> key_name]
UserInputLine(text) == [kind |-> "user_input", text |-> text]

NoCall == [key |-> 0, drv |-> Raised, done |-> FALSE, label |-> <<>>]

(***************************************************************************)
(* Program start and the consent prompt.                                   *)
(***************************************************************************)
YES_LOWER == <<121, 101, 115>>

\* mutant: the answer is lower-cased but not stripped
ConsentGivenNoStrip(s) == lower(s) = YES_LOWER

\* consent = input(...).strip().lower(); main runs unless consent != "yes"
ConsentGiven(s) == lower(strip(s)) = YES_LOWER

\* the characters typed at the prompt in the model: Y y E e S s n and space
ConsentChars == {89, 121, 69, 101, 83, 115, 110, 32}

\* the lines of length n typed at the prompt in the model
ConsentInputs(n) == [1..n -> ConsentChars]

\* os.makedirs(LOG_DIR, exist_ok=True) at import time, before the prompt:
\* creates the directory when absent, raises FileExistsError on a plain file
Boot ==
    /\ pc = "boot"
    /\ IF fsLogs = "file"
       THEN /\ pc' = "crashed"
            /\ exitCode' = 1
            /\ UNCHANGED fsLogs
       ELSE /\ fsLogs' = "dir"
            /\ pc' = "prompt"
            /\ UNCHANGED exitCode
    /\ UNCHANGED <<fsLogs0, typed, fileVars, loopVars, ops, kn>>

\* the operator answers the prompt with the line s
Consent(s) ==
    /\ pc = "prompt"
    /\ typed' = s
    /\ IF ConsentGiven(s)
       THEN /\ pc' = "main"
            /\ UNCHANGED exitCode
       ELSE /\ pc' = "declined"
            /\ exitCode' = 0
    /\ UNCHANGED <<fsLogs, fsLogs0, fileVars, loopVars, ops, kn>>

\* end of input at the prompt: input() raises EOFError, which nothing catches
ConsentEOF ==
    /\ pc = "prompt"
    /\ pc' = "crashed"
    /\ exitCode' = 1
    /\ UNCHANGED <<bootVars, fileVars, loopVars, ops, kn>>

(***************************************************************************)
(* main: set-up, the read loop, the end of the session.                    *)
(***************************************************************************)
Heights == 1..MaxHeight

\* the three header addnstr calls in one try block: rows 0, 1, 2
HeaderOp(h) == IF h >= 3 THEN "hdr" ELSE "hdr!"

\* set-up of main up to the loop: open the log, write the start marker
\* (no flush), draw the headers, vertical_y = 4, reconstructed = []
StartSession(h) ==
    /\ pc = "main"
    /\ logf' = "open"
    /\ buf' = <<StartMarker>>
    /\ disk' = <<>>
    /\ height' = h
    /\ ops' = <<"open", "write", "erase", HeaderOp(h)>>
    /\ vertical_y' = 4
    /\ reconstructed' = <<>>
    /\ pc' = "read"
    /\ UNCHANGED <<bootVars, exitCode, keys, lastRow, kn>>

\* mutant: the BACKSPACE branch is missing
ReconstructNoBackspace(rec, key_name) ==
    IF key_name = ENTER THEN Append(rec, NL)
    ELSE IF key_name = SPACE THEN Append(rec, SP)
    ELSE IF key_name = ESC THEN rec
    ELSE IF Len(key_name) = 1 /\ isprintable(key_name[1]) THEN Append(rec, key_name[1])
    ELSE rec

\* the update of reconstructed for one key name (the if/elif chain)
Reconstruct(rec, key_name) ==
    IF key_name = BACKSPACE
    THEN IF rec # <<>> THEN SubSeq(rec, 1, Len(rec) - 1) ELSE rec
    ELSE IF key_name = ENTER THEN Append(rec, NL)
    ELSE IF key_name = SPACE THEN Append(rec, SP)
    ELSE IF key_name = ESC THEN rec
    ELSE IF Len(key_name) = 1 /\ isprintable(key_name[1]) THEN Append(rec, key_name[1])
    ELSE rec

\* the lines the ESC branch writes before it breaks
EscLines(key_name) == <<KeyLine(key_name)>>

\* mutant: the ESC branch does not break
AfterKeyNoBreak(key_name) == "read"

\* where the loop goes after a key
AfterKey(key_name) == IF key_name = ESC THEN "ending" ELSE "read"

\* the row the label is drawn on
DrawRow(y, h) == IF y >= h - 1 THEN h - 2 ELSE y

\* mutant: vertical_y += 1 inside the try block, skipped when addnstr raises
AdvanceRowInTry(row, addFailed) == IF addFailed THEN row ELSE row + 1

\* vertical_y += 1, after the try block around addnstr
AdvanceRow(row, addFailed) == row + 1

\* the operations of the scroll branch: scroll(1), or on curses.error
\* erase and the headers again
ScrollOps(y, h, scrollFails) ==
    IF y >= h - 1
    THEN IF scrollFails THEN <<"scroll!", "erase", HeaderOp(h)>> ELSE <<"scroll">>
    ELSE <<>>

\* addnstr(row, 0, ...) raises curses.error outside the window
AddOp(row, h) == IF row >= 0 /\ row < h THEN "addnstr" ELSE "addnstr!"

\* one iteration of the loop: getmaxyx gave h, getch gave key, the driver
\* answered drv; scrollFails/refreshFails: scroll(1)/refresh() raise curses.error
ReadKey(key, drv, h, scrollFails, refreshFails) ==
    /\ pc = "read"
    /\ Len(keys) < MaxKeys
    /\ LET key_name == readable_key_name(key, drv)
           row == DrawRow(vertical_y, h)
       IN /\ keys' = Append(keys, [code |-> key, drv |-> drv])
          /\ height' = h
          /\ reconstructed' = Reconstruct(reconstructed, key_name)
          /\ pc' = AfterKey(key_name)
          /\ buf' = <<>>
          /\ IF key_name = ESC
             THEN /\ disk' = disk \o buf \o EscLines(key_name)
                  /\ ops' = <<"write", "flush">>
                  /\ UNCHANGED <<vertical_y, lastRow>>
             ELSE /\ disk' = disk \o buf \o <<KeyLine(key_name)>>
                  /\ ops' = <<"write", "flush">>
                            \o ScrollOps(vertical_y, h, scrollFails)
                            \o <<AddOp(row, h)>>
                            \o <<IF refreshFails THEN "refresh!" ELSE "refresh">>
                  /\ lastRow' = row
                  /\ vertical_y' = AdvanceRow(row, AddOp(row, h) = "addnstr!")
    /\ UNCHANGED <<bootVars, exitCode, logf, kn>>

\* the text of the final line: newlines shown as backslash, n
UserInputRepr(rec) == replace(rec, <<NL>>, <<BACKSLASH, 110>>)

\* after the loop: end marker, "user input:" line, close; then main returns
\* and the program prints its last message and ends
EndSession ==
    /\ pc = "ending"
    /\ disk' = disk \o buf \o <<EndMarker, UserInputLine(UserInputRepr(reconstructed))>>
    /\ buf' = <<>>
    /\ logf' = "closed"
    /\ ops' = <<"write", "write", "close">>
    /\ pc' = "done"
    /\ exitCode' = 0
    /\ UNCHANGED <<bootVars, loopVars, kn>>

\* Ctrl-C while main is blocked in getch: KeyboardInterrupt leaves main (no
\* try/finally there), curses.wrapper restores the terminal, the except
\* clause of the script prints and the program ends; the file object is
\* dropped, so what was buffered reaches the file, and nothing else does
Interrupt ==
    /\ pc = "read"
    /\ disk' = disk \o buf
    /\ buf' = <<>>
    /\ logf' = "finalized"
    /\ ops' = <<>>
    /\ pc' = "interrupted"
    /\ exitCode' = 0
    /\ UNCHANGED <<bootVars, loopVars, kn>>

\* one call of readable_key_name
Resolve ==
    /\ pc = "resolve"
    /\ ~kn.done
    /\ kn' = [kn EXCEPT !.done = TRUE, !.label = readable_key_name(kn.key, kn.drv)]
    /\ UNCHANGED <<pc, bootVars, exitCode, fileVars, loopVars, ops>>

(***************************************************************************)
(* Specifications.                                                         *)
(***************************************************************************)
\* the whole program from its start to the first blocking read
InitConsent ==
    /\ pc = "boot"
    /\ fsLogs0 \in {"absent", "dir", "file"}
    /\ fsLogs = fsLogs0
    /\ typed = <<>>
    /\ exitCode = -1
    /\ logf = "none"
    /\ buf = <<>>
    /\ disk = <<>>
    /\ reconstructed = <<>>
    /\ vertical_y = 0
    /\ height = 0
    /\ keys = <<>>
    /\ ops = <<>>
    /\ lastRow = 0
    /\ kn = NoCall

NextConsent ==
    \/ Boot
    \/ pc = "prompt" /\ \E n \in 0..MaxConsentLen : \E s \in ConsentInputs(n) : Consent(s)
    \/ ConsentEOF
    \/ \E h \in Heights : StartSession(h)

SpecConsent == InitConsent /\ [][NextConsent]_vars

\* main, entered after consent was given
InitMain ==
    /\ pc = "main"
    /\ fsLogs0 \in {"absent", "dir"}
    /\ fsLogs = "dir"
    /\ typed = YES_LOWER
    /\ exitCode = -1
    /\ logf = "none"
    /\ buf = <<>>
    /\ disk = <<>>
    /\ reconstructed = <<>>
    /\ vertical_y = 0
    /\ height = 0
    /\ keys = <<>>
    /\ ops = <<>>
    /\ lastRow = 0
    /\ kn = NoCall

\* the session on a terminal of ordinary height: keys of every kind
SessionHeight == 24
\* A B C, BACKSPACE, ENTER, SPACE, ESC, and 233, which the driver names "M-i"
\* (a name that is no single character) or, outside meta mode, fails to
\* decode (then chr gives one printable character)
SessionKeys == {65, 66, 67, 127, 10, 32, 27, 233}

NextSession ==
    \/ StartSession(SessionHeight)
    \/ pc = "read" /\ \E key \in SessionKeys : \E drv \in keyname(key) :
           ReadKey(key, drv, SessionHeight, FALSE, FALSE)
    \/ EndSession
    \/ Interrupt

Spec == InitMain /\ [][NextSession]_vars

\* the display: every height, resizes between keys, failing curses calls
DisplayKeys == {65, 27}

NextDisplay ==
    \/ \E h \in Heights : StartSession(h)
    \/ pc = "read" /\ \E key \in DisplayKeys : \E drv \in keyname(key) : \E h \in Heights :
           \E scrollFails \in BOOLEAN : \E refreshFails \in BOOLEAN :
               ReadKey(key, drv, h, scrollFails, refreshFails)
    \/ EndSession
    \/ Interrupt

SpecDisplay == InitMain /\ [][NextDisplay]_vars

\* readable_key_name on every code of the model and every driver outcome
InitKeyName ==
    /\ pc = "resolve"
    /\ fsLogs0 = "dir"
    /\ fsLogs = "dir"
    /\ typed = <<>>
    /\ exitCode = -1
    /\ logf = "none"
    /\ buf = <<>>
    /\ disk = <<>>
    /\ reconstructed = <<>>
    /\ vertical_y = 0
    /\ height = 0
    /\ keys = <<>>
    /\ ops = <<>>
    /\ lastRow = 0
    /\ \E key \in KeyCodes : \E drv \in keyname(key) :
           kn = [key |-> key, drv |-> drv, done |-> FALSE, label |-> <<>>]

NextKeyName == Resolve

SpecKeyName == InitKeyName /\ [][NextKeyName]_vars

(***************************************************************************)
(* Properties.                                                             *)
(***************************************************************************)
\* everything written to the log so far, flushed or not
Log == disk \o buf

\* the names resolved for the keys read so far
KeyNames == [i \in 1..Len(keys) |-> readable_key_name(keys[i].code, keys[i].drv)]
KeyCodesRead == [i \in 1..Len(keys) |-> keys[i].code]

InSession == pc \in {"read", "ending", "done", "interrupted"}

\* the update rule as the specification states it, folded over the names
RECURSIVE FoldRule(_)
FoldRule(names) ==
    IF names = <<>> THEN <<>>
    ELSE LET prev == FoldRule(SubSeq(names, 1, Len(names) - 1))
             k == names[Len(names)]
         IN CASE k = BACKSPACE -> IF prev = <<>> THEN <<>> ELSE SubSeq(prev, 1, Len(prev) - 1)
              [] k = ENTER -> prev \o <<NL>>
              [] k = SPACE -> prev \o <<SP>>
              [] k \notin {BACKSPACE, ENTER, SPACE} /\ Len(k) = 1 /\ isprintable(k[1]) -> prev \o k
              [] OTHER -> prev

\* a text with every newline shown as the two characters backslash, n
RECURSIVE Escaped(_)
Escaped(text) ==
    IF text = <<>> THEN <<>>
    ELSE (IF Head(text) = NL THEN <<BACKSLASH, 110>> ELSE <<Head(text)>>) \o Escaped(Tail(text))

\* C1: a session that started and then ended, by ESC or by a keyboard
\* interrupt, left a log with exactly one start marker (the first line), then
\* only per-key lines, then exactly one end marker, then exactly one
\* "user input:" line.
C1_SessionLogFramed ==
    pc \in {"done", "interrupted"} =>
        /\ Len(disk) >= 3
        /\ disk[1] = StartMarker
        /\ \A i \in 2..(Len(disk) - 2) : disk[i].kind = "key"
        /\ disk[Len(disk) - 1] = EndMarker
        /\ disk[Len(disk)].kind = "user_input"

\* C2: after a keyboard interrupt during the read loop the log ends with the
\* session-end marker and the "user input:" line of the text reconstructed so
\* far, and the log file was closed by main as on the ESC path.
C2_InterruptFinalizes ==
    pc = "interrupted" =>
        /\ Len(disk) >= 2
        /\ disk[Len(disk) - 1] = EndMarker
        /\ disk[Len(disk)] = UserInputLine(Escaped(reconstructed))
        /\ logf = "closed"

\* C3: a key resolving to ESC is logged and flushed exactly once, ends the
\* loop (it is the last key ever read), and its line is the last per-key
\* line of the log, with the session-end marker right after it.
C3_EscLoggedLast ==
    LET escAt == {i \in 1..Len(Log) : Log[i] = KeyLine(ESC)}
    IN /\ \A i \in 1..Len(keys) :
              KeyNames[i] = ESC => (i = Len(keys) /\ pc \in {"ending", "done"})
       /\ pc \in {"read", "interrupted"} => escAt = {}
       /\ pc \in {"ending", "done"} =>
              /\ keys # <<>>
              /\ KeyNames[Len(keys)] = ESC
              /\ escAt = {Len(keys) + 1}
              /\ Len(disk) >= Len(keys) + 1
              /\ \A j \in (Len(keys) + 2)..Len(Log) : Log[j].kind # "key"
              /\ pc = "ending" => Len(Log) = Len(keys) + 1
              /\ pc = "done" => (Len(Log) > Len(keys) + 1 /\ Log[Len(keys) + 2] = EndMarker)

C3_Witness == pc = "done" /\ Len(keys) >= 3

\* a line that is "yes" in any letter case between runs of whitespace
IsPaddedYes(s) ==
    \E i \in 1..Len(s) :
        /\ i + 2 <= Len(s)
        /\ s[i] \in {89, 121}
        /\ s[i + 1] \in {69, 101}
        /\ s[i + 2] \in {83, 115}
        /\ \A j \in 1..Len(s) : j \notin i..(i + 2) => s[j] \in Whitespace

MainEntered == pc \in {"main", "read"}

\* C4 as stated: main is entered only when the line typed is exactly "YES";
\* every other line, also one differing in case or whitespace, aborts.
C4_ExactYES == MainEntered => typed = <<89, 69, 83>>

\* C4 as amended: main is entered exactly when the line typed is "yes" in any
\* letter case with any surrounding whitespace; every other line aborts
\* before main is entered.
C4_NormalizedYes ==
    /\ MainEntered => IsPaddedYes(typed)
    /\ pc = "declined" => ~IsPaddedYes(typed)

C4_Witness == pc = "read" /\ typed = <<32, 89, 101, 115>>

\* C5: when consent is declined nothing was created or written: ./logs is
\* what it was before the program started, no log file exists, and the exit
\* code is 0.
C5_DeclineNoSideEffects ==
    pc = "declined" =>
        /\ fsLogs = fsLogs0
        /\ logf = "none"
        /\ Log = <<>>
        /\ exitCode = 0

\* C6: reconstructed is the fold of the update rule over the names of the
\* keys read (A, B, BACKSPACE, C gives "AC"), and the "user input:" line of a
\* finished session is that text with each newline as backslash-n, holding
\* printable characters only, so no line break.
C6_Reconstructed ==
    /\ InSession => reconstructed = FoldRule(KeyNames)
    /\ (InSession /\ Len(keys) >= 4 /\ SubSeq(KeyCodesRead, 1, 4) = <<65, 66, 127, 67>>
            /\ (Len(keys) > 4 => KeyNames[5] = ESC))
           => reconstructed = <<65, 67>>
    /\ pc = "done" =>
           LET last == disk[Len(disk)]
           IN /\ last = UserInputLine(Escaped(FoldRule(KeyNames)))
              /\ \A i \in 1..Len(last.text) : last.text[i] # NL /\ isprintable(last.text[i])

C6_Witness ==
    /\ pc = "done"
    /\ KeyCodesRead = <<65, 66, 127, 67, 27>>
    /\ disk[Len(disk)] = UserInputLine(<<65, 67>>)

\* C7: readable_key_name returns a non-empty label for every code; a code of
\* the static table gets its table name whatever the driver says; otherwise
\* the driver's name is the label; the code is tried as a printable character
\* only when the driver lookup failed; KEY_<code> only when all of that failed.
C7_TotalOrdered ==
    kn.done =>
        LET inTable == kn.key \in DOMAIN SPECIAL_KEYS
            printable == chr_ok(kn.key) /\ isprintable(kn.key)
        IN /\ kn.label # <<>>
           /\ inTable => kn.label = SPECIAL_KEYS[kn.key]
           /\ (~inTable /\ kn.drv.ok) => kn.label = kn.drv.name
           /\ (~inTable /\ ~kn.drv.ok /\ printable) => kn.label = <<kn.key>>
           /\ kn.label = KEY_ \o IntStr(kn.key) => (~inTable /\ ~kn.drv.ok /\ ~printable)

\* C8: whenever main blocks in getch after n keys, the log is the start
\* marker followed by the n per-key lines, in reading order, each with the
\* name resolved for its key, and all of it is flushed to the file.
C8_LogFlushedBeforeRead ==
    pc = "read" =>
        /\ Log = <<StartMarker>> \o [i \in 1..Len(keys) |-> KeyLine(KeyNames[i])]
        /\ buf = <<>>

\* C9: the first label targets row 4 and each next one the row below; at a
\* target row >= height-1 the display is scrolled one line and the label goes
\* to row height-2; so every label drawn (addnstr succeeded) is on a row >= 3
\* and <= height-1, never on the header rows 0-2.
C9_DisplayPolicy ==
    (pc = "read" /\ keys # <<>> /\ \E i \in 1..Len(ops) : ops[i] = "addnstr") =>
        LET scrolled == \E i \in 1..Len(ops) : ops[i] \in {"scroll", "scroll!"}
        IN /\ scrolled => lastRow = height - 2
           /\ (~scrolled /\ Len(keys) = 1) => lastRow = 4
           /\ vertical_y = lastRow + 1
           /\ lastRow >= 3
           /\ lastRow <= height - 1

FailedOps == {"hdr!", "scroll!", "addnstr!", "refresh!"}
DrawOps == {"scroll", "erase", "hdr", "addnstr", "refresh"} \cup FailedOps

\* C10: a drawing operation that raises curses.error never ends the session
\* and never touches the log: for a key other than ESC the log line is
\* written and flushed before any drawing, reconstructed follows the update
\* rule all the same, the row counter is one past the row just drawn, and
\* the loop is back at the blocking read.
C10_DrawFailuresSwallowed ==
    /\ (\E i \in 1..Len(ops) : ops[i] \in FailedOps) => (pc = "read" /\ logf = "open")
    /\ (pc = "read" /\ keys # <<>>) =>
           /\ Len(ops) >= 4
           /\ ops[1] = "write"
           /\ ops[2] = "flush"
           /\ \A i \in 3..Len(ops) : ops[i] \in DrawOps
           /\ buf = <<>>
           /\ disk = <<StartMarker>> \o [i \in 1..Len(keys) |-> KeyLine(KeyNames[i])]
           /\ reconstructed = FoldRule(KeyNames)
           /\ vertical_y = lastRow + 1

C10_Witness ==
    /\ pc = "read"
    /\ Len(keys) >= 2
    /\ \E i \in 1..Len(ops) : ops[i] = "scroll!"
    /\ \E i \in 1..Len(ops) : ops[i] = "hdr!"
    /\ \E i \in 1..Len(ops) : ops[i] = "addnstr!"
    /\ \E i \in 1..Len(ops) : ops[i] = "refresh!"

====
